---- MODULE Spec2Model ----
(***************************************************************************)
(* State-machine model of the two client components of the template:       *)
(*   - ItemsListHeader: local search text and create-modal flag, the       *)
(*     optional onSearch callback prop and the handlers passed down to     *)
(*     ActionHeader and CreateItemModal;                                    *)
(*   - NavUser: the element tree rendered for a user, and what the avatar  *)
(*     element displays for each image loading status.                     *)
(* Each handler runs to completion on the UI thread, so one event is one   *)
(* step.                                                                   *)
(***************************************************************************)
EXTENDS Naturals, Sequences, FiniteSets

VARIABLES
    q,                  \* searchParams.get("q") at mount: <<>> (null) or <<s>>
    onSearch,           \* TRUE iff the onSearch prop was supplied
    searchQuery,        \* useState: current search text
    isCreateModalOpen,  \* useState: create-item dialog open flag
    calls,              \* arguments of the onSearch invocations so far, in order
    fault,              \* TRUE once a handler threw (call of an undefined prop)
    hist,               \* events handled so far, in order
    user,               \* NavUser props.user
    imageStatus,        \* avatar image loading status
    view                \* what NavUser currently displays

headerVars == <<q, onSearch, searchQuery, isCreateModalOpen, calls, fault, hist>>
navVars == <<user, imageStatus, view>>
vars == <<q, onSearch, searchQuery, isCreateModalOpen, calls, fault, hist,
          user, imageStatus, view>>

\* Number of events one run of the header handles.
MaxEvents == 3

\* Strings typed into the search field or carried by the q parameter.
Texts == {"", "foo", "widget"}

\* Values of KeyboardEvent.key.
Keys == {"Enter", "enter", "Escape", "a"}

\* Values of the optional q parameter: null (<<>>) or a string.
QValues == {<<>>} \cup {<<t>> : t \in Texts}

Ev(type, arg) == [type |-> type, arg |-> arg]

Last(s) == s[Len(s)]

Front(s) == SubSeq(s, 1, Len(s) - 1)

\* The ?? operator: the default replaces only null.
Coalesce(v, d) == IF v = <<>> THEN d ELSE v[1]

\* useState(searchParams.get("q") ?? "")
InitialSearchQuery_ignoresParam(param) == ""

InitialSearchQuery(param) == Coalesce(param, "")

\* Invocation of the onSearch prop; calling it when undefined throws.
CallOnSearch(arg) ==
    IF onSearch
    THEN calls' = Append(calls, arg) /\ fault' = fault
    ELSE calls' = calls /\ fault' = TRUE

handleSearch_unguarded == CallOnSearch(searchQuery)

handleSearch_usesParam ==
    IF onSearch
    THEN CallOnSearch(Coalesce(q, ""))
    ELSE UNCHANGED <<calls, fault>>

handleSearch ==
    IF onSearch
    THEN CallOnSearch(searchQuery)
    ELSE UNCHANGED <<calls, fault>>

setSearchQuery(s) == searchQuery' = s

setIsCreateModalOpen(b) == isCreateModalOpen' = b

handleClearSearch_staleQuery ==
    /\ setSearchQuery("")
    /\ IF onSearch
       THEN CallOnSearch(searchQuery)
       ELSE UNCHANGED <<calls, fault>>
    /\ UNCHANGED isCreateModalOpen

handleClearSearch ==
    /\ setSearchQuery("")
    /\ IF onSearch
       THEN CallOnSearch("")
       ELSE UNCHANGED <<calls, fault>>
    /\ UNCHANGED isCreateModalOpen

handleKeyDown_anyCase(key) ==
    /\ IF key \in {"Enter", "enter"}
       THEN handleSearch
       ELSE UNCHANGED <<calls, fault>>
    /\ UNCHANGED <<searchQuery, isCreateModalOpen>>

handleKeyDown_escapeClears(key) ==
    /\ IF key = "Enter"
       THEN handleSearch
       ELSE UNCHANGED <<calls, fault>>
    /\ searchQuery' = IF key = "Escape" THEN "" ELSE searchQuery
    /\ UNCHANGED isCreateModalOpen

handleKeyDown(key) ==
    /\ IF key = "Enter"
       THEN handleSearch
       ELSE UNCHANGED <<calls, fault>>
    /\ UNCHANGED <<searchQuery, isCreateModalOpen>>

onClose_toggles == setIsCreateModalOpen(~isCreateModalOpen)

\* onClose={() => setIsCreateModalOpen(false)}
onClose == setIsCreateModalOpen(FALSE)

\* An event of ActionHeader or CreateItemModal reaches the prop it is bound
\* to: the props of the header never change, the event is recorded.
Handled(e) ==
    /\ Len(hist) < MaxEvents
    /\ hist' = Append(hist, e)
    /\ UNCHANGED <<q, onSearch>>
    /\ UNCHANGED navVars

\* onSeachQuery={setSearchQuery}
ChangeText_searchAsYouType(s) ==
    /\ Handled(Ev("change", s))
    /\ setSearchQuery(s)
    /\ IF onSearch THEN CallOnSearch(s) ELSE UNCHANGED <<calls, fault>>
    /\ UNCHANGED isCreateModalOpen

ChangeText(s) ==
    /\ Handled(Ev("change", s))
    /\ setSearchQuery(s)
    /\ UNCHANGED <<isCreateModalOpen, calls, fault>>

\* onKeyDown={handleKeyDown}
KeyDown(key) ==
    /\ Handled(Ev("keydown", key))
    /\ handleKeyDown(key)

\* onClearSearch={handleClearSearch}
ClearSearch ==
    /\ Handled(Ev("clear", ""))
    /\ handleClearSearch

\* onSetModalOpen={setIsCreateModalOpen}; the create trigger of ActionHeader
\* calls it with true.
CreateTrigger ==
    /\ Handled(Ev("create", ""))
    /\ setIsCreateModalOpen(TRUE)
    /\ UNCHANGED <<searchQuery, calls, fault>>

CloseModal ==
    /\ Handled(Ev("close", ""))
    /\ onClose
    /\ UNCHANGED <<searchQuery, calls, fault>>

\* A search action of ActionHeader other than a key press: ActionHeader is
\* handed no prop for it (handleSearch is passed only inside handleKeyDown).
SearchTrigger_wired ==
    /\ Handled(Ev("search", ""))
    /\ handleSearch
    /\ UNCHANGED <<searchQuery, isCreateModalOpen>>

SearchTrigger ==
    /\ Handled(Ev("search", ""))
    /\ UNCHANGED <<searchQuery, isCreateModalOpen, calls, fault>>

\* Props of NavUser.
Names == {"Ada Lovelace", "Bob", "Carol Nash", "shadcn"}

Emails == {"ada@example.com", "b@x.io", "m@example.com"}

\* Avatar sources; "" is a missing source.
Avatars == {"", "/ada.png", "/broken.png", "/avatars/shadcn.jpg"}

Users == [name : Names, email : Emails, avatar : Avatars]

\* The element tree NavUser returns.
NavUser_fallbackFromName(u) ==
    [image |-> [src |-> u.avatar, alt |-> u.name],
     fallback |-> u.name,
     name |-> u.name,
     email |-> u.email]

NavUser(u) ==
    [image |-> [src |-> u.avatar, alt |-> u.name],
     fallback |-> "CN",
     name |-> u.name,
     email |-> u.email]

\* Avatar element: the image is displayed once it has loaded, the fallback
\* otherwise.
AvatarShown(tree, status) ==
    IF status = "loaded"
    THEN <<"img", tree.image.src>>
    ELSE <<"text", tree.fallback>>

\* Status of the image when the avatar mounts: no source is an error.
MountStatus(src) == IF src = "" THEN "error" ELSE "loading"

Display(u, status) ==
    [name |-> NavUser(u).name,
     email |-> NavUser(u).email,
     avatar |-> AvatarShown(NavUser(u), status)]

NavIdle ==
    /\ user = [name |-> "", email |-> "", avatar |-> ""]
    /\ imageStatus = "idle"
    /\ view = <<>>

HeaderIdle ==
    /\ q = <<>>
    /\ onSearch = FALSE
    /\ searchQuery = InitialSearchQuery(q)
    /\ isCreateModalOpen = FALSE
    /\ calls = <<>>
    /\ fault = FALSE
    /\ hist = <<>>

NavInit ==
    /\ HeaderIdle
    /\ user \in Users
    /\ imageStatus = MountStatus(user.avatar)
    /\ view = Display(user, imageStatus)

ImageLoaded ==
    /\ imageStatus = "loading"
    /\ imageStatus' = "loaded"
    /\ view' = Display(user, imageStatus')
    /\ UNCHANGED user
    /\ UNCHANGED headerVars

ImageFailed ==
    /\ imageStatus = "loading"
    /\ imageStatus' = "error"
    /\ view' = Display(user, imageStatus')
    /\ UNCHANGED user
    /\ UNCHANGED headerVars

NavNext == ImageLoaded \/ ImageFailed

NavSpec == NavInit /\ [][NavNext]_vars

Init ==
    /\ q \in QValues
    /\ onSearch \in BOOLEAN
    /\ searchQuery = InitialSearchQuery(q)
    /\ isCreateModalOpen = FALSE
    /\ calls = <<>>
    /\ fault = FALSE
    /\ hist = <<>>
    /\ NavIdle

Next ==
    \/ \E s \in Texts : ChangeText(s)
    \/ \E key \in Keys : KeyDown(key)
    \/ ClearSearch
    \/ CreateTrigger
    \/ CloseModal
    \/ SearchTrigger

Spec == Init /\ [][Next]_vars

(***************************************************************************)
(* Properties                                                              *)
(***************************************************************************)

\* The step handles event e.
IsStep(e) == hist' = Append(hist, e)

RECURSIVE LastSetValue(_, _)
\* The value given by the most recent change or clear event of h, or init.
LastSetValue(h, init) ==
    IF h = <<>> THEN init
    ELSE IF Last(h).type = "change" THEN Last(h).arg
    ELSE IF Last(h).type = "clear" THEN ""
    ELSE LastSetValue(Front(h), init)

Edited(h) == \E i \in 1..Len(h) : h[i].type \in {"change", "clear"}

\* C1: with an onSearch callback supplied, a key-down with key "Enter"
\* invokes onSearch exactly once, with the current search text, which is the
\* value of the most recent text-change or clear event (the initial value if
\* there was none).
C1_EnterInvokesOnSearchOnce ==
    [][(IsStep(Ev("keydown", "Enter")) /\ onSearch)
        => /\ calls' = Append(calls, searchQuery)
           /\ searchQuery = LastSetValue(hist, Coalesce(q, ""))
           /\ fault' = fault]_vars

C1_Witness ==
    /\ onSearch
    /\ hist = <<Ev("change", "widget"), Ev("change", "foo"), Ev("keydown", "Enter")>>
    /\ calls = <<"foo">>

\* C2: clear-search always leaves the search text empty and, when an
\* onSearch callback is supplied, invokes it exactly once with "".
C2_ClearResetsAndNotifies ==
    [][IsStep(Ev("clear", ""))
        => /\ searchQuery' = ""
           /\ (onSearch => calls' = Append(calls, ""))]_vars

C2_Witness ==
    /\ onSearch
    /\ hist = <<Ev("change", "foo"), Ev("clear", "")>>
    /\ searchQuery = ""
    /\ calls = <<"">>

\* C3: without an onSearch callback, Enter and clear-search raise no fault
\* and invoke nothing; Enter changes no state, clear-search still empties
\* the search text.
C3_NoCallbackNoFault ==
    [][~onSearch
        => /\ fault' = FALSE
           /\ (IsStep(Ev("keydown", "Enter"))
                 => UNCHANGED <<searchQuery, isCreateModalOpen, calls, fault>>)
           /\ (IsStep(Ev("clear", ""))
                 => searchQuery' = "" /\ UNCHANGED <<calls, fault>>)]_vars

C3_Witness ==
    /\ ~onSearch
    /\ hist = <<Ev("change", "foo"), Ev("keydown", "Enter"), Ev("clear", "")>>
    /\ searchQuery = ""
    /\ calls = <<>>
    /\ ~fault

\* C4: initially the search text is the q parameter when it is present and
\* "" when it is absent, and the modal is closed.
C4_InitialState ==
    hist = <<>>
        => /\ (q # <<>> => searchQuery = q[1])
           /\ (q = <<>> => searchQuery = "")
           /\ isCreateModalOpen = FALSE

C4_Witness ==
    /\ hist = <<>>
    /\ q = <<"widget">>
    /\ searchQuery = "widget"

\* C5: a text-change with string s sets the search text to s and does
\* nothing else: no onSearch invocation, modal flag unchanged.
C5_ChangeOnlySetsText ==
    [][\A s \in Texts :
        IsStep(Ev("change", s))
            => /\ searchQuery' = s
               /\ UNCHANGED <<isCreateModalOpen, calls, fault>>]_vars

C5_Witness ==
    /\ onSearch
    /\ hist = <<Ev("create", ""), Ev("change", "foo")>>
    /\ searchQuery = "foo"
    /\ isCreateModalOpen
    /\ calls = <<>>

\* C6: the create trigger opens the modal and the modal's close action
\* closes it; neither changes the search text or invokes onSearch.
C6_ModalOpenClose ==
    [][/\ (IsStep(Ev("create", "")) => isCreateModalOpen' = TRUE)
       /\ (IsStep(Ev("close", "")) => isCreateModalOpen' = FALSE)
       /\ (IsStep(Ev("create", "")) \/ IsStep(Ev("close", ""))
             => UNCHANGED <<searchQuery, calls, fault>>)]_vars

C6_Witness ==
    /\ hist = <<Ev("create", ""), Ev("close", "")>>
    /\ ~isCreateModalOpen

\* C7 as stated: a search trigger other than the Enter key invokes the
\* supplied onSearch callback with the current search text.
C7_SearchTriggerInvokes ==
    [][(IsStep(Ev("search", "")) /\ onSearch)
        => calls' = Append(calls, searchQuery)]_vars

\* C7 amended: the header wires no search trigger besides the Enter key; a
\* search action other than Enter invokes no callback and changes no state,
\* whether or not onSearch is supplied.
C7_SearchTriggerUnwired ==
    [][IsStep(Ev("search", ""))
        => UNCHANGED <<searchQuery, isCreateModalOpen, calls, fault>>]_vars

C7_Witness ==
    /\ onSearch
    /\ hist = <<Ev("change", "foo"), Ev("search", "")>>
    /\ searchQuery = "foo"
    /\ calls = <<>>

\* C8 as stated: in every reachable state the search text equals q when q
\* is present.
C8_AlwaysMirrorsParam == q # <<>> => searchQuery = q[1]

\* C8 amended: the search text equals the q parameter read at mount, when
\* present, as long as no text-change or clear event has been handled.
C8_MirrorsParamUntilEdited ==
    (q # <<>> /\ ~Edited(hist)) => searchQuery = q[1]

C8_Witness ==
    /\ q = <<"widget">>
    /\ hist = <<Ev("keydown", "Escape"), Ev("create", ""), Ev("keydown", "Enter")>>
    /\ searchQuery = "widget"

\* C9: NavUser displays the name and the email of the user and, once
\* loaded, an image whose source is the avatar; when the source is invalid
\* or missing it displays the text "CN", whatever the name.
C9_NavUserRenders ==
    /\ view.name = user.name
    /\ view.email = user.email
    /\ NavUser(user).image.src = user.avatar
    /\ (imageStatus = "loaded" => view.avatar = <<"img", user.avatar>>)
    /\ (imageStatus = "error" => view.avatar = <<"text", "CN">>)

C9_Witness ==
    /\ user = [name |-> "Ada Lovelace", email |-> "ada@example.com",
                avatar |-> "/broken.png"]
    /\ imageStatus = "error"
    /\ view.avatar = <<"text", "CN">>

\* C10: a key-down never changes the search text or the modal flag, and it
\* invokes onSearch only when the key is exactly "Enter".
C10_KeyDownFrame ==
    [][\A key \in Keys :
        IsStep(Ev("keydown", key))
            => /\ UNCHANGED <<searchQuery, isCreateModalOpen>>
               /\ (key # "Enter" => UNCHANGED <<calls, fault>>)]_vars

C10_Witness ==
    /\ onSearch
    /\ isCreateModalOpen
    /\ hist = <<Ev("create", ""), Ev("change", "foo"), Ev("keydown", "enter")>>
    /\ searchQuery = "foo"
    /\ calls = <<>>

====
